---------------------------- MODULE Spec2Model ----------------------------
(***************************************************************************)
(* A state-machine model of stitching.py: simple_descriptor,               *)
(* describe_keypoints, match_descriptors, fit_affine_matrix and ransac.    *)
(*                                                                         *)
(* One call is modelled as a frame: fn is the function running, args its   *)
(* arguments, loc its local variables (a record whose fields carry the     *)
(* names of the Python locals bound so far), pc the position in its body   *)
(* and ret what the call produced (a value, or the exception that ended    *)
(* it).                                                                    *)
(*                                                                         *)
(* Numbers are exact.  A real number the code holds as a float is held as  *)
(* a fraction of integers; arrays are sequences, and array indices stay    *)
(* 0-based as in the source (element k of an array a is a[k + 1]).         *)
(***************************************************************************)
EXTENDS Integers, Sequences, FiniteSets, TLC

VARIABLES fn, args, loc, pc, ret

vars == <<fn, args, loc, pc, ret>>

None == [tag |-> "None"]

(***************************************************************************)
(* Bounds of the checked input space.                                      *)
(***************************************************************************)
\* largest number of matches handed to ransac
MaxN == 15
\* largest number of matches of the scene with outliers
MaxNoisyN == 10
\* largest n_iters handed to ransac
MaxIters == 2
\* largest number of rows of p1 and of p2 handed to fit_affine_matrix
MaxPoints == 3
\* largest height and width of a patch handed to simple_descriptor
MaxSide == 2
\* largest number of keypoints handed to describe_keypoints
MaxKeypoints == 2
\* largest patch_size handed to describe_keypoints
MaxPatch == 3
\* largest number of rows of desc1 and of desc2 handed to match_descriptors
MaxRows1 == 2
MaxRows2 == 3

(***************************************************************************)
(* Integer helpers.                                                        *)
(***************************************************************************)
Abs(a) == IF a < 0 THEN -a ELSE a

RECURSIVE GCD(_, _)
GCD(a, b) == IF b = 0 THEN Abs(a) ELSE GCD(b, a % Abs(b))

RECURSIVE SumSeq(_)
SumSeq(s) == IF s = <<>> THEN 0 ELSE Head(s) + SumSeq(Tail(s))

RECURSIVE GCDSeq(_)
GCDSeq(s) == IF s = <<>> THEN 0 ELSE GCD(Head(s), GCDSeq(Tail(s)))

\* the rows of array a that the 0-based index array idx names: a[idx]
RECURSIVE Take(_, _)
Take(a, idx) ==
    IF idx = <<>> THEN <<>> ELSE <<a[Head(idx) + 1]>> \o Take(a, Tail(idx))

\* the rows of array a at which the 0/1 sequence bits holds 1, in a's order
RECURSIVE SelectRows(_, _)
SelectRows(a, bits) ==
    IF a = <<>> THEN <<>>
    ELSE (IF Head(bits) = 1 THEN <<Head(a)>> ELSE <<>>)
             \o SelectRows(Tail(a), Tail(bits))

(***************************************************************************)
(* 3-column matrices: a sequence of rows, each a sequence of 3 integers.   *)
(***************************************************************************)
\* Function constructors are written out as tuples so that every entry is
\* computed once.
Vec3(F(_)) == <<F(1), F(2), F(3)>>

Mat3(F(_, _)) ==
    <<<<F(1, 1), F(1, 2), F(1, 3)>>,
      <<F(2, 1), F(2, 2), F(2, 3)>>,
      <<F(3, 1), F(3, 2), F(3, 3)>>>>

Dot3(u, v) == u[1] * v[1] + u[2] * v[2] + u[3] * v[3]

\* column c (1-based) of an array of rows
RECURSIVE Col(_, _)
Col(M, c) == IF M = <<>> THEN <<>> ELSE <<Head(M)[c]>> \o Col(Tail(M), c)

\* sum over the rows k of A[k][r] * B[k][c]
RECURSIVE SumProd(_, _, _, _)
SumProd(A, B, r, c) ==
    IF A = <<>> THEN 0
    ELSE Head(A)[r] * Head(B)[c] + SumProd(Tail(A), Tail(B), r, c)

\* A^T B for two matrices of the same number of rows and 3 columns
Gram(A, B) == Mat3(LAMBDA r, c : SumProd(A, B, r, c))

MatMul(A, B) ==
    Mat3(LAMBDA r, c : A[r][1] * B[1][c] + A[r][2] * B[2][c] + A[r][3] * B[3][c])

\* a row vector times a 3x3 matrix
RowMul(v, M) == Vec3(LAMBDA c : v[1] * M[1][c] + v[2] * M[2][c] + v[3] * M[3][c])

Scale(k, M) == Mat3(LAMBDA r, c : k * M[r][c])

MatAdd(A, B) == Mat3(LAMBDA r, c : A[r][c] + B[r][c])

Identity3 == <<<<1, 0, 0>>, <<0, 1, 0>>, <<0, 0, 1>>>>

Zero3 == <<<<0, 0, 0>>, <<0, 0, 0>>, <<0, 0, 0>>>>

Trace3(G) == G[1][1] + G[2][2] + G[3][3]

\* the sum of the principal 2x2 minors of G
Minors3(G) ==
      (G[1][1] * G[2][2] - G[1][2] * G[2][1])
    + (G[1][1] * G[3][3] - G[1][3] * G[3][1])
    + (G[2][2] * G[3][3] - G[2][3] * G[3][2])

Det3(G) ==
      G[1][1] * (G[2][2] * G[3][3] - G[2][3] * G[3][2])
    - G[1][2] * (G[2][1] * G[3][3] - G[2][3] * G[3][1])
    + G[1][3] * (G[2][1] * G[3][2] - G[2][2] * G[3][1])

(***************************************************************************)
(* A real 3x3 matrix is the fraction num / den of an integer matrix and a  *)
(* positive integer, kept in lowest terms.                                 *)
(***************************************************************************)
Rat(num, den) ==
    LET g == GCD(den, GCDSeq(num[1] \o num[2] \o num[3]))
        s == IF den < 0 THEN -1 ELSE 1
    IN  [num |-> Mat3(LAMBDA r, c : s * (num[r][c] \div g)),
         den |-> s * (den \div g)]

(***************************************************************************)
(* utils.pad: a column of ones appended to an array of 2-D points.         *)
(***************************************************************************)
RECURSIVE pad(_)
pad(p) ==
    IF p = <<>> THEN <<>>
    ELSE <<<<Head(p)[1], Head(p)[2], 1>>>> \o pad(Tail(p))

(***************************************************************************)
(* np.linalg.lstsq(A, B, rcond=None)[0] for A, B of 3 columns: the         *)
(* least-squares solution X of A X = B of minimum norm, X = pinv(A) B.     *)
(* With G = A^T A, R = A^T B and c1, c2, c3 the coefficients of the        *)
(* characteristic polynomial of G (trace, sum of principal minors,         *)
(* determinant):                                                           *)
(*    rank 3:  X = adj(G) R / c3,  adj(G) = G^2 - c1 G + c2 I              *)
(*    rank 2:  X = (c1 I - G) R / c2                                       *)
(*    rank 1:  X = R / c1                                                  *)
(*    rank 0:  X = 0            (no rows, or all rows zero)                *)
(***************************************************************************)
pinv_solve(A, B) ==
    LET G  == Gram(A, A)
        R  == Gram(A, B)
        c1 == Trace3(G)
        c2 == Minors3(G)
        c3 == Det3(G)
    IN  IF c3 # 0
          THEN Rat(MatMul(MatAdd(MatAdd(MatMul(G, G), Scale(-c1, G)),
                                 Scale(c2, Identity3)), R), c3)
        ELSE IF c2 # 0
          THEN Rat(MatMul(MatAdd(Scale(c1, Identity3), Scale(-1, G)), R), c2)
        ELSE IF c1 # 0
          THEN Rat(R, c1)
        ELSE Rat(Zero3, 1)

\* the operands exchanged: the solution of B X = A
lstsq_swapped(A, B) == pinv_solve(B, A)

lstsq(A, B) == pinv_solve(A, B)

\* the assignment left out
KeepLastColumn(X) == X

\* H[:, 2] = np.array([0, 0, 1])
SetLastColumn(X) ==
    [num |-> <<<<X.num[1][1], X.num[1][2], 0>>,
               <<X.num[2][1], X.num[2][2], 0>>,
               <<X.num[3][1], X.num[3][2], X.den>>>>,
     den |-> X.den]

LastColumn(X) == <<X.num[1][3], X.num[2][3], X.num[3][3]>>

\* np.linalg.norm(row . H - target) ** 2 < threshold, for one padded row
Within(row, X, target, threshold) ==
    LET v == RowMul(row, X.num)
        d == Vec3(LAMBDA c : v[c] - X.den * target[c])
    IN  Dot3(d, d) < threshold * X.den * X.den

(***************************************************************************)
(* Arrays that carry a dtype: np.zeros(N) holds float64 zeros, the result  *)
(* of a comparison holds bools.  data is the 0/1 content.                  *)
(***************************************************************************)
np_zeros(n) == [dtype |-> "float64", data |-> [k \in 1..n |-> 0]]

\* the size of the array instead of the sum of its entries
np_size(mask) == Len(mask.data)

\* np.sum of a boolean array
np_sum(mask) == SumSeq(mask.data)

(***************************************************************************)
(* ransac(keypoints1, keypoints2, matches, n_iters, threshold)             *)
(***************************************************************************)

\* n_samples = int(N * 0.2)
SampleSize(N) == (N * 2) \div 10

\* a draw with replacement
ChoiceWithReplacement(N, k) ==
    {s \in [1..k -> 0..(N - 1)] : \A a \in 1..(k - 1) : s[a] <= s[a + 1]}

\* np.random.choice(N, k, replace=False): every choice of k distinct indices
\* of range(N) can be drawn.  The draw is held in increasing order: the rows
\* it selects enter the solve only through sums over them (Gram), so the
\* order of the draw has no effect on H.
Choice(N, k) ==
    {s \in [1..k -> 0..(N - 1)] : \A a \in 1..(k - 1) : s[a] < s[a + 1]}

RECURSIVE Residuals(_, _, _, _)
Residuals(matched1, matched2, X, threshold) ==
    IF matched2 = <<>> THEN <<>>
    ELSE <<IF Within(Head(matched2), X, Head(matched1), threshold)
           THEN 1 ELSE 0>>
         \o Residuals(Tail(matched1), Tail(matched2), X, threshold)

Score(matched1, matched2, X, threshold) ==
    [dtype |-> "bool",
     data  |-> Residuals(matched1, matched2, X, threshold)]

\* the comparison made non-strict
ImprovesOrTies(temp_n, n_inliers) == temp_n >= n_inliers

\* if temp_n > n_inliers
Improves(temp_n, n_inliers) == temp_n > n_inliers

\* the affine transform of the exact scene: (y, x) -> (y + x + 2, x + 3)
ExactTransform == <<<<1, 0, 0>>, <<1, 1, 0>>, <<2, 3, 1>>>>

\* keypoints2 of the modelled scenes: the first n points of a 4-column grid
GridPoints(n) == [k \in 1..n |-> <<(k - 1) \div 4, (k - 1) % 4>>]

\* keypoints1 of a scene, stored in reverse match order so that
\* matches[:, 0] is not the identity
Scene(name, n) ==
    LET q == GridPoints(n)
        image(k) ==
            CASE name = "affine" ->
                   LET t == RowMul(<<q[k][1], q[k][2], 1>>, ExactTransform)
                   IN  <<t[1], t[2]>>
              [] name = "noisy"  -> IF k % 4 = 0
                                    THEN <<q[k][2] + 4, q[k][1]>>
                                    ELSE <<q[k][1] + 1, q[k][2]>>
    IN  [keypoints1 |-> [k \in 1..n |-> image(n + 1 - k)],
         keypoints2 |-> q,
         matches    |-> [k \in 1..n |-> <<n - k, k - 1>>]]

\* a scene whose matches all follow one affine transform, and one with outliers
ExactScenes == {"affine"}

Thresholds == {1, 20}

SceneSizes ==
    {<<s, n>> : s \in ExactScenes, n \in 1..MaxN}
        \cup {<<"noisy", n>> : n \in 1..MaxNoisyN}

RansacInputs ==
    {[keypoints1 |-> Scene(sn[1], sn[2]).keypoints1,
      keypoints2 |-> Scene(sn[1], sn[2]).keypoints2,
      matches    |-> Scene(sn[1], sn[2]).matches,
      n_iters    |-> it,
      threshold  |-> th] :
        sn \in SceneSizes, it \in 1..MaxIters, th \in Thresholds}

ransac_call ==
    /\ fn = "ransac"
    /\ pc = "call"
    /\ LET N == Len(args.matches)
       IN  loc' = [N           |-> N,
                   n_samples   |-> SampleSize(N),
                   matched1    |-> pad(Take(args.keypoints1, Col(args.matches, 1))),
                   matched2    |-> pad(Take(args.keypoints2, Col(args.matches, 2))),
                   max_inliers |-> np_zeros(N),
                   n_inliers   |-> 0,
                   i           |-> 0]
    /\ pc' = "loop"
    /\ UNCHANGED <<fn, args, ret>>

\* index = np.random.choice(N, n_samples, replace=False)
ransac_sample ==
    /\ fn = "ransac"
    /\ pc = "loop"
    /\ loc.i < args.n_iters
    /\ \E s \in Choice(loc.N, loc.n_samples) :
           loc' = [index |-> s] @@ loc
    /\ pc' = "sampled"
    /\ UNCHANGED <<fn, args, ret>>

\* p1, p2, H, temp_max, temp_n of one iteration
ransac_fit ==
    /\ fn = "ransac"
    /\ pc = "sampled"
    /\ LET p1 == Take(loc.matched1, loc.index)
           p2 == Take(loc.matched2, loc.index)
           X  == SetLastColumn(lstsq(p2, p1))
           tm == Score(loc.matched1, loc.matched2, X, args.threshold)
       IN  loc' = [p1 |-> p1, p2 |-> p2, H |-> X,
                   temp_max |-> tm, temp_n |-> np_sum(tm)] @@ loc
    /\ pc' = "scored"
    /\ UNCHANGED <<fn, args, ret>>

\* the comparison that ends the loop body.  index, p1, p2, H, temp_max and
\* temp_n are assigned afresh before the next iteration or the re-fit reads
\* them, so they are dropped from the locals here.
ransac_update ==
    /\ fn = "ransac"
    /\ pc = "scored"
    /\ loc' = [N           |-> loc.N,
               n_samples   |-> loc.n_samples,
               matched1    |-> loc.matched1,
               matched2    |-> loc.matched2,
               max_inliers |-> IF Improves(loc.temp_n, loc.n_inliers)
                               THEN loc.temp_max ELSE loc.max_inliers,
               n_inliers   |-> IF Improves(loc.temp_n, loc.n_inliers)
                               THEN loc.temp_n ELSE loc.n_inliers,
               i           |-> loc.i + 1]
    /\ pc' = "loop"
    /\ UNCHANGED <<fn, args, ret>>

\* matched2[max_inliers] with a float64 index array: numpy raises IndexError
\* (arrays used as indices must be of integer or boolean type)
ransac_index_error ==
    /\ fn = "ransac"
    /\ pc = "loop"
    /\ loc.i = args.n_iters
    /\ loc.max_inliers.dtype # "bool"
    /\ pc' = "raised"
    /\ ret' = [exc |-> "IndexError"]
    /\ UNCHANGED <<fn, args, loc>>

\* the re-fit on the retained inliers and the return
ransac_return ==
    /\ fn = "ransac"
    /\ pc = "loop"
    /\ loc.i = args.n_iters
    /\ loc.max_inliers.dtype = "bool"
    /\ LET X == SetLastColumn(lstsq(SelectRows(loc.matched2, loc.max_inliers.data),
                                    SelectRows(loc.matched1, loc.max_inliers.data)))
       IN  /\ loc' = [H |-> X] @@ loc
           /\ ret' = [H |-> X,
                      matches |-> SelectRows(args.matches, loc.max_inliers.data)]
    /\ pc' = "done"
    /\ UNCHANGED <<fn, args>>

InitRansac ==
    /\ fn = "ransac"
    /\ args \in RansacInputs
    /\ loc = None
    /\ pc = "call"
    /\ ret = None

(***************************************************************************)
(* fit_affine_matrix(p1, p2)                                               *)
(***************************************************************************)

\* the assertion left out
AnyRows(p1, p2) == TRUE

\* assert (p1.shape[0] == p2.shape[0])
SameRows(p1, p2) == Len(p1) = Len(p2)

\* p2 of the modelled calls: the first n points of a 2-column grid
FitPoints(n) == [k \in 1..n |-> <<(k - 1) % 2, (k - 1) \div 2>>]

FitTargets == {<<0, 0>>, <<1, 2>>, <<2, 1>>}

FitInputs ==
    {[p1 |-> a, p2 |-> FitPoints(m)] :
        a \in UNION {[1..n -> FitTargets] : n \in 0..MaxPoints}, m \in 0..MaxPoints}

\* the assertion fails: AssertionError, nothing else done
fit_assert_fails ==
    /\ fn = "fit_affine_matrix"
    /\ pc = "call"
    /\ ~SameRows(args.p1, args.p2)
    /\ pc' = "raised"
    /\ ret' = [exc |-> "AssertionError"]
    /\ UNCHANGED <<fn, args, loc>>

\* p1 = pad(p1); p2 = pad(p2)
fit_pad ==
    /\ fn = "fit_affine_matrix"
    /\ pc = "call"
    /\ SameRows(args.p1, args.p2)
    /\ loc' = [p1 |-> pad(args.p1), p2 |-> pad(args.p2)]
    /\ pc' = "padded"
    /\ UNCHANGED <<fn, args, ret>>

\* H = np.linalg.lstsq(p2, p1, rcond=None)[0]
fit_solve ==
    /\ fn = "fit_affine_matrix"
    /\ pc = "padded"
    /\ loc' = [H |-> lstsq(loc.p2, loc.p1)] @@ loc
    /\ pc' = "solved"
    /\ UNCHANGED <<fn, args, ret>>

\* H[:, 2] = np.array([0, 0, 1]); return H
fit_return ==
    /\ fn = "fit_affine_matrix"
    /\ pc = "solved"
    /\ ret' = SetLastColumn(loc.H)
    /\ pc' = "done"
    /\ UNCHANGED <<fn, args, loc>>

InitFit ==
    /\ fn = "fit_affine_matrix"
    /\ args \in FitInputs
    /\ loc = None
    /\ pc = "call"
    /\ ret = None

NextFit ==
    \/ fit_assert_fails
    \/ fit_pad
    \/ fit_solve
    \/ fit_return

(***************************************************************************)
(* The affine fitter and the robust estimator: one call of either.         *)
(***************************************************************************)
Init == InitRansac \/ InitFit

Next ==
    \/ ransac_call
    \/ ransac_sample
    \/ ransac_fit
    \/ ransac_update
    \/ ransac_index_error
    \/ ransac_return
    \/ fit_assert_fails
    \/ fit_pad
    \/ fit_solve
    \/ fit_return

Spec == Init /\ [][Next]_vars


SpecFit == InitFit /\ [][NextFit]_vars

(***************************************************************************)
(* simple_descriptor(patch)                                                *)
(*                                                                         *)
(* A patch is an array of rows of integer samples.  With n samples of sum  *)
(* s, write dev = n p - s for a sample p and V for the sum of the dev^2:   *)
(* avg = s / n, std = sqrt(V / n^3) and                                    *)
(*    (p - avg) / std = sign(dev) sqrt(n dev^2 / V).                       *)
(* A real value is held as its sign and its square (a fraction in lowest   *)
(* terms); the float values nan and +-inf by their names.                  *)
(***************************************************************************)
RECURSIVE flatten(_)
flatten(a) == IF a = <<>> THEN <<>> ELSE Head(a) \o flatten(Tail(a))

RECURSIVE SumSq(_)
SumSq(s) == IF s = <<>> THEN 0 ELSE Head(s) * Head(s) + SumSq(Tail(s))

RECURSIVE Devs(_, _, _)
Devs(flat, n, total) ==
    IF flat = <<>> THEN <<>>
    ELSE <<n * Head(flat) - total>> \o Devs(Tail(flat), n, total)

Sign(a) == IF a < 0 THEN -1 ELSE IF a > 0 THEN 1 ELSE 0

Real(sign, num, den) ==
    [kind |-> "real", sign |-> sign,
     num |-> num \div GCD(num, den), den |-> den \div GCD(num, den)]

NaN == [kind |-> "nan", sign |-> 0, num |-> 0, den |-> 0]

Inf(sign) == [kind |-> "inf", sign |-> sign, num |-> 0, den |-> 0]

RealZero == Real(0, 0, 1)

\* np.mean(patch) and np.std(patch) as the pair (s, n) and the pair (V, n^3)
np_mean(patch) ==
    LET flat == flatten(patch)
    IN  [num |-> SumSeq(flat), den |-> Len(flat)]

np_std(patch) ==
    LET flat == flatten(patch)
        n    == Len(flat)
    IN  [num |-> SumSq(Devs(flat, n, SumSeq(flat))), den |-> n * n * n]

\* one entry of (patch - avg) / std.  avg and std are numpy floats, and the
\* division of numpy floats follows IEEE 754: 0/0 is nan and x/0 is +-inf,
\* with a RuntimeWarning; ZeroDivisionError is never raised, so the except
\* branch (the division by 1.0) is never entered.
Divide(dev, n, V) ==
    IF V = 0 THEN (IF dev = 0 THEN NaN ELSE Inf(Sign(dev)))
    ELSE Real(Sign(dev), n * dev * dev, V)

RECURSIVE DivideAll(_, _, _)
DivideAll(devs, n, V) ==
    IF devs = <<>> THEN <<>>
    ELSE <<Divide(Head(devs), n, V)>> \o DivideAll(Tail(devs), n, V)

simple_descriptor(patch) ==
    LET flat == flatten(patch)
        n    == Len(flat)
        devs == Devs(flat, n, SumSeq(flat))
    IN  DivideAll(devs, n, SumSq(devs))

\* the patches handed to simple_descriptor in the modelled calls: h x w arrays
\* of samples 0..2
Patches ==
    UNION {[1..h -> [1..w -> 0..2]] : h \in 1..MaxSide, w \in 1..MaxSide}

\* avg = np.mean(patch); std = np.std(patch)
simple_descriptor_stats ==
    /\ fn = "simple_descriptor"
    /\ pc = "call"
    /\ loc' = [avg |-> np_mean(args.patch), std |-> np_std(args.patch)]
    /\ pc' = "stats"
    /\ UNCHANGED <<fn, args, ret>>

\* feature = (patch - avg) / std; feature = feature.flatten(); return
simple_descriptor_return ==
    /\ fn = "simple_descriptor"
    /\ pc = "stats"
    /\ LET feature == simple_descriptor(args.patch)
       IN  /\ loc' = [feature |-> feature] @@ loc
           /\ ret' = feature
    /\ pc' = "done"
    /\ UNCHANGED <<fn, args>>

InitSimple ==
    /\ fn = "simple_descriptor"
    /\ args \in {[patch |-> q] : q \in Patches}
    /\ loc = None
    /\ pc = "call"
    /\ ret = None

(***************************************************************************)
(* describe_keypoints(image, keypoints, desc_func, patch_size)             *)
(***************************************************************************)

\* a slice bound as Python clips it against a length n
Clip(a, n) ==
    IF a < 0 THEN (IF a + n < 0 THEN 0 ELSE a + n)
    ELSE IF a > n THEN n ELSE a

\* s[a:b]
PySlice(s, a, b) ==
    LET lo == Clip(a, Len(s))
        hi == Clip(b, Len(s))
    IN  IF lo >= hi THEN <<>> ELSE SubSeq(s, lo + 1, hi)

RECURSIVE SliceRows(_, _, _)
SliceRows(rows, a, b) ==
    IF rows = <<>> THEN <<>>
    ELSE <<PySlice(Head(rows), a, b)>> \o SliceRows(Tail(rows), a, b)

\* the upper bound taken with the floor half as well
UpperFloor(c, patch_size) == c + (patch_size \div 2)

\* c - (patch_size // 2) and c + ((patch_size + 1) // 2)
Lower(c, patch_size) == c - (patch_size \div 2)

Upper(c, patch_size) == c + ((patch_size + 1) \div 2)

\* image[y - p//2 : y + (p+1)//2, x - p//2 : x + (p+1)//2]
PatchAt(image, y, x, patch_size) ==
    SliceRows(PySlice(image, Lower(y, patch_size), Upper(y, patch_size)),
              Lower(x, patch_size), Upper(x, patch_size))

\* the descriptor functions passed as desc_func: simple_descriptor, and the
\* plain flattening of the patch
flat_descriptor(patch) == flatten(patch)

desc_call(desc_func, patch) ==
    IF desc_func = "simple_descriptor" THEN simple_descriptor(patch)
    ELSE flat_descriptor(patch)

\* the modelled images, 6 rows by 5 columns
TestImage(name) ==
    [y \in 1..6 |-> [x \in 1..5 |->
        IF name = "flat" THEN 7 ELSE ((y * y + 3 * x) % 7) + x]]

KeypointSpots == {<<0, 0>>, <<1, 3>>, <<2, 2>>, <<3, 2>>, <<4, 1>>, <<5, 4>>}

DescribeInputs ==
    {[image |-> TestImage(im), keypoints |-> kps,
      desc_func |-> f, patch_size |-> ps] :
        im \in {"flat", "varied"},
        kps \in UNION {[1..n -> KeypointSpots] : n \in 0..MaxKeypoints},
        f \in {"simple_descriptor", "flatten"},
        ps \in 1..MaxPatch}

\* desc = []
describe_call ==
    /\ fn = "describe_keypoints"
    /\ pc = "call"
    /\ loc' = [desc |-> <<>>, i |-> 0]
    /\ pc' = "loop"
    /\ UNCHANGED <<fn, args, ret>>

\* one pass of the loop over the keypoints
describe_step ==
    /\ fn = "describe_keypoints"
    /\ pc = "loop"
    /\ loc.i < Len(args.keypoints)
    /\ LET kp    == args.keypoints[loc.i + 1]
           patch == PatchAt(args.image, kp[1], kp[2], args.patch_size)
       IN  loc' = [desc  |-> Append(loc.desc, desc_call(args.desc_func, patch)),
                   i     |-> loc.i + 1,
                   y     |-> kp[1],
                   x     |-> kp[2],
                   patch |-> patch]
    /\ pc' = "loop"
    /\ UNCHANGED <<fn, args, ret>>

Ragged(desc) == \E a, b \in 1..Len(desc) : Len(desc[a]) # Len(desc[b])

\* return np.array(desc)
describe_return ==
    /\ fn = "describe_keypoints"
    /\ pc = "loop"
    /\ loc.i = Len(args.keypoints)
    /\ ret' = loc.desc
    /\ pc' = "done"
    /\ UNCHANGED <<fn, args, loc>>

\* np.array of rows of unequal length: numpy 1.24 and later raise ValueError
\* (earlier versions build an array of objects, which describe_return covers)
describe_value_error ==
    /\ fn = "describe_keypoints"
    /\ pc = "loop"
    /\ loc.i = Len(args.keypoints)
    /\ Ragged(loc.desc)
    /\ ret' = [exc |-> "ValueError"]
    /\ pc' = "raised"
    /\ UNCHANGED <<fn, args, loc>>

InitDescribe ==
    /\ fn = "describe_keypoints"
    /\ args \in DescribeInputs
    /\ loc = None
    /\ pc = "call"
    /\ ret = None

InitDesc == InitSimple \/ InitDescribe

NextDesc ==
    \/ simple_descriptor_stats
    \/ simple_descriptor_return
    \/ describe_call
    \/ describe_step
    \/ describe_return
    \/ describe_value_error

SpecDesc == InitDesc /\ [][NextDesc]_vars

(***************************************************************************)
(* match_descriptors(desc1, desc2, threshold)                              *)
(*                                                                         *)
(* Descriptors are rows of integers.  A Euclidean distance is held as its  *)
(* square; threshold is the fraction num / den with den > 0.               *)
(***************************************************************************)
RECURSIVE SqDist(_, _)
SqDist(u, v) ==
    IF u = <<>> THEN 0
    ELSE (Head(u) - Head(v)) * (Head(u) - Head(v)) + SqDist(Tail(u), Tail(v))

\* cdist(desc1, desc2), entry by entry the squared Euclidean distance
cdist(desc1, desc2) ==
    [i \in 1..Len(desc1) |-> [j \in 1..Len(desc2) |-> SqDist(desc1[i], desc2[j])]]

\* the test made non-strict: sqrt(q2) - sqrt(q1) >= num / den
GapAtLeast(q1, q2, num, den) ==
    LET D == den * den * (q2 - q1) - num * num
        E == den * den * (q1 - q2) - num * num
    IN  IF num >= 0
        THEN D >= 0 /\ D * D >= 4 * num * num * den * den * q1
        ELSE ~(E > 0 /\ E * E > 4 * num * num * den * den * q2)

\* sqrt(q2) - sqrt(q1) > num / den.  For num >= 0 this is
\* q2 - q1 - t^2 > 2 t sqrt(q1), with both sides multiplied by den^2 and then
\* squared; for num < 0 it is the negation of sqrt(q1) - sqrt(q2) >= -num / den.
GapExceeds(q1, q2, num, den) ==
    LET D == den * den * (q2 - q1) - num * num
        E == den * den * (q1 - q2) - num * num
    IN  IF num >= 0
        THEN D > 0 /\ D * D > 4 * num * num * den * den * q1
        ELSE ~(E >= 0 /\ E * E >= 4 * num * num * den * den * q2)

\* np.argsort(row): the index arrays that put row in ascending order.  The
\* default kind is quicksort, which numpy documents as not stable, so equal
\* entries may come out in either order.
Argsorts(row) ==
    {s \in [1..Len(row) -> 0..(Len(row) - 1)] :
        /\ \A a, b \in 1..Len(row) : a # b => s[a] # s[b]
        /\ \A a \in 1..(Len(row) - 1) : row[s[a] + 1] <= row[s[a + 1] + 1]}

\* matches = np.c_[np.arange(N), idx_sort[:, 0]]; matches = matches[idx_valid]
RECURSIVE SelectMatches(_, _, _)
SelectMatches(idx_sort, idx_valid, i) ==
    IF i > Len(idx_sort) THEN <<>>
    ELSE (IF idx_valid[i] THEN <<<<i - 1, idx_sort[i][1]>>>> ELSE <<>>)
             \o SelectMatches(idx_sort, idx_valid, i + 1)

DescRows == {<<0, 0>>, <<1, 0>>, <<1, 1>>}

MatchThresholds ==
    {[num |-> -1, den |-> 1], [num |-> 0, den |-> 1],
     [num |-> 1, den |-> 2], [num |-> 1, den |-> 1]}

\* desc1 of the modelled calls: the first m rows of a fixed list
Desc1Rows(m) == [k \in 1..m |-> <<k \div 2, (k % 4) \div 3>>]

MatchInputs ==
    {[desc1 |-> Desc1Rows(m), desc2 |-> d2, threshold |-> th] :
        m \in 1..MaxRows1,
        d2 \in UNION {[1..n -> DescRows] : n \in 1..MaxRows2},
        th \in MatchThresholds}

\* N = desc1.shape[0]; dists = cdist(desc1, desc2)
match_call ==
    /\ fn = "match_descriptors"
    /\ pc = "call"
    /\ loc' = [N |-> Len(args.desc1), dists |-> cdist(args.desc1, args.desc2)]
    /\ pc' = "dists"
    /\ UNCHANGED <<fn, args, ret>>

\* idx_sort = np.argsort(dists, axis=-1)
match_argsort ==
    /\ fn = "match_descriptors"
    /\ pc = "dists"
    /\ \E srt \in [1..loc.N -> UNION {Argsorts(loc.dists[i]) : i \in 1..loc.N}] :
          /\ \A i \in 1..loc.N : srt[i] \in Argsorts(loc.dists[i])
          /\ loc' = [idx_sort |-> srt] @@ loc
    /\ pc' = "sorted"
    /\ UNCHANGED <<fn, args, ret>>

\* idx_sort[:, 1] on a single column: IndexError
match_index_error ==
    /\ fn = "match_descriptors"
    /\ pc = "sorted"
    /\ Len(args.desc2) < 2
    /\ ret' = [exc |-> "IndexError"]
    /\ pc' = "raised"
    /\ UNCHANGED <<fn, args, loc>>

\* idx_valid, matches and the return
match_return ==
    /\ fn = "match_descriptors"
    /\ pc = "sorted"
    /\ Len(args.desc2) >= 2
    /\ LET valid == [i \in 1..loc.N |->
                       GapExceeds(loc.dists[i][loc.idx_sort[i][1] + 1],
                                  loc.dists[i][loc.idx_sort[i][2] + 1],
                                  args.threshold.num, args.threshold.den)]
           matches == SelectMatches(loc.idx_sort, valid, 1)
       IN  /\ loc' = [idx_valid |-> valid, matches |-> matches] @@ loc
           /\ ret' = matches
    /\ pc' = "done"
    /\ UNCHANGED <<fn, args>>

InitMatch ==
    /\ fn = "match_descriptors"
    /\ args \in MatchInputs
    /\ loc = None
    /\ pc = "call"
    /\ ret = None

NextMatch ==
    \/ match_call
    \/ match_argsort
    \/ match_index_error
    \/ match_return

SpecMatch == InitMatch /\ [][NextMatch]_vars

(***************************************************************************)
(* Properties of ransac and fit_affine_matrix, checked under Spec.         *)
(***************************************************************************)
InRansac(at) == fn = "ransac" /\ pc \in at

NMatches == Len(args.matches)

\* the 1-based positions at which a 0/1 sequence holds 1
Ones(bits) == {k \in 1..Len(bits) : bits[k] = 1}

\* C1: the retained inlier mask and count are replaced only when an
\* iteration's inlier count is strictly greater than the retained count; an
\* iteration that only ties the retained count, with whatever mask, leaves
\* the mask of the earlier iteration in place.
C1_StrictImprovementOnly ==
    [][InRansac({"scored"}) =>
          IF loc.temp_n > loc.n_inliers
          THEN /\ loc'.max_inliers = loc.temp_max
               /\ loc'.n_inliers = loc.temp_n
          ELSE /\ loc'.max_inliers = loc.max_inliers
               /\ loc'.n_inliers = loc.n_inliers]_vars

\* an iteration ties the retained, non-zero count with a different mask
C1_Witness ==
    /\ InRansac({"scored"})
    /\ loc.n_inliers > 0
    /\ loc.temp_n = loc.n_inliers
    /\ loc.temp_max # loc.max_inliers

\* every match follows the transform of the exact scene
Consistent ==
    \A k \in 1..Len(loc.matched2) :
        RowMul(loc.matched2[k], ExactTransform) = loc.matched1[k]

\* twice the signed area of the triangle of three points
Cross(a, b, c) ==
    (b[1] - a[1]) * (c[2] - a[2]) - (b[2] - a[2]) * (c[1] - a[1])

\* the sample holds three matches whose keypoints2 are not on one line
NonCollinearSample ==
    \E a, b, c \in 1..Len(loc.index) :
        Cross(loc.matched2[loc.index[a] + 1], loc.matched2[loc.index[b] + 1],
              loc.matched2[loc.index[c] + 1]) # 0

\* C2 as stated: on matches that all follow one affine transform, ransac
\* returns all N matches, whatever N, threshold, n_iters and the samples.
C2_AllMatchesReturned ==
    (InRansac({"done"}) /\ Consistent) => ret.matches = args.matches

\* C2 amended: on such matches, an iteration whose sample holds three
\* matches with non-collinear keypoints2 scores all N matches as inliers;
\* a retained count of N is never given up, and ransac then returns all N
\* matches.
C2_AllMatchesOnFullRankSample ==
    /\ [](InRansac({"scored"}) /\ Consistent /\ NonCollinearSample
             => loc.temp_n = NMatches)
    /\ [][InRansac({"loop", "sampled", "scored"}) /\ loc.n_inliers = NMatches
             => loc'.n_inliers = NMatches]_vars
    /\ [](InRansac({"done"}) /\ loc.n_inliers = NMatches
             => ret.matches = args.matches)

\* all matches are returned after an iteration with a non-collinear sample
\* at the strict threshold
C2_Witness ==
    /\ InRansac({"scored"})
    /\ Consistent
    /\ NonCollinearSample
    /\ args.threshold = 1
    /\ loc.temp_n = NMatches

\* C3: when no iteration finds an inlier, ransac raises nothing and returns
\* an H with an empty subset of the matches.
C3_NoInlierRunReturnsEmpty ==
    (InRansac({"done", "raised"}) /\ loc.n_inliers = 0)
        => (pc = "done" /\ ret.matches = <<>>)

UnitLastColumn(X) == LastColumn(X) = <<0, 0, X.den>>

\* C6: the H returned by fit_affine_matrix, every candidate H scored in the
\* ransac loop and the H returned by ransac have last column [0, 0, 1].
C6_LastColumnFixed ==
    /\ InRansac({"scored"}) => UnitLastColumn(loc.H)
    /\ InRansac({"done"}) => UnitLastColumn(ret.H)
    /\ (fn = "fit_affine_matrix" /\ pc = "done") => UnitLastColumn(ret)

\* fit_affine_matrix returns after a solve whose last column was not [0, 0, 1]
C6_Witness ==
    /\ fn = "fit_affine_matrix"
    /\ pc = "done"
    /\ ~UnitLastColumn(loc.H)
    /\ UnitLastColumn(ret)

\* C7: with differing row counts fit_affine_matrix raises at the assertion,
\* before any padding or solve and without a matrix; with equal row counts
\* the assertion never fails.
C7_PreconditionFailsFirst ==
    fn = "fit_affine_matrix" =>
        IF Len(args.p1) # Len(args.p2)
        THEN /\ pc \in {"call", "raised"}
             /\ loc = None
             /\ pc = "raised" => ret = [exc |-> "AssertionError"]
        ELSE pc # "raised"

\* a call with differing row counts has raised
C7_Witness ==
    /\ fn = "fit_affine_matrix"
    /\ pc = "raised"
    /\ Len(args.p1) # Len(args.p2)
    /\ Len(args.p1) > 0
    /\ Len(args.p2) > 0

\* C9: in the loop the retained mask has N entries and n_inliers is the
\* number of its true entries; n_inliers never decreases; the matches
\* returned are the rows of the input matches at the true entries of the
\* final mask, in their original order.
C9_MaskAndCount ==
    /\ [](InRansac({"loop", "sampled", "scored", "done"}) =>
             /\ Len(loc.max_inliers.data) = NMatches
             /\ loc.n_inliers = Cardinality(Ones(loc.max_inliers.data)))
    /\ [][InRansac({"loop", "sampled", "scored"})
             => loc'.n_inliers >= loc.n_inliers]_vars
    /\ [](InRansac({"done"}) =>
             LET on == Ones(loc.max_inliers.data)
             IN  /\ Len(ret.matches) = Cardinality(on)
                 /\ \A k \in on :
                      ret.matches[Cardinality({j \in on : j <= k})]
                          = args.matches[k])

\* ransac returned a proper, non-empty subset that skips an earlier row
C9_Witness ==
    /\ InRansac({"done"})
    /\ loc.n_inliers > 1
    /\ loc.n_inliers < NMatches
    /\ loc.max_inliers.data[1] = 0

\* C10: every sample holds exactly floor(0.2 N) pairwise distinct indices
\* of [0, N), and the mask of the iteration has one entry per match, set by
\* that match's own residual whether it was sampled or not.
C10_SampleAndFullMask ==
    /\ InRansac({"sampled", "scored"}) =>
          LET k == Len(loc.index)
          IN  /\ 5 * k <= NMatches
              /\ NMatches < 5 * (k + 1)
              /\ \A a \in 1..k : loc.index[a] \in 0..(NMatches - 1)
              /\ \A a, b \in 1..k : a # b => loc.index[a] # loc.index[b]
    /\ InRansac({"scored"}) =>
          /\ Len(loc.temp_max.data) = NMatches
          /\ \A k \in 1..NMatches :
                loc.temp_max.data[k] = 1 <=>
                    Within(loc.matched2[k], loc.H, loc.matched1[k],
                           args.threshold)

\* an iteration with a non-empty sample counts an inlier outside the sample
\* and an outlier
C10_Witness ==
    /\ InRansac({"scored"})
    /\ Len(loc.index) > 0
    /\ \E k \in Ones(loc.temp_max.data) :
          \A a \in 1..Len(loc.index) : loc.index[a] # k - 1
    /\ loc.temp_n < NMatches


(***************************************************************************)
(* Properties of simple_descriptor and describe_keypoints, checked under   *)
(* SpecDesc.                                                               *)
(***************************************************************************)
ConstantPatch(patch) ==
    \A r, q \in 1..Len(patch) : \A c, d \in 1..Len(patch[1]) :
        patch[r][c] = patch[q][d]

\* C5: for a constant patch simple_descriptor returns an all-zero
\* descriptor of length h * w.
C5_ConstantPatchGivesZeros ==
    (fn = "simple_descriptor" /\ pc = "done" /\ ConstantPatch(args.patch)) =>
        /\ Len(ret) = Len(args.patch) * Len(args.patch[1])
        /\ \A k \in 1..Len(ret) : ret[k] = RealZero

\* ceil(patch_size / 2)
CeilHalf == (args.patch_size + 1) \div 2

\* the keypoint is at least ceil(patch_size / 2) away from every border
HasMargin(kp) ==
    /\ kp[1] >= CeilHalf
    /\ kp[1] <= Len(args.image) - 1 - CeilHalf
    /\ kp[2] >= CeilHalf
    /\ kp[2] <= Len(args.image[1]) - 1 - CeilHalf

\* the patch_size x patch_size window that starts floor(patch_size / 2)
\* before the keypoint, read pixel by pixel
Window(kp) ==
    [r \in 1..args.patch_size |-> [c \in 1..args.patch_size |->
        args.image[kp[1] - (args.patch_size \div 2) + r]
                  [kp[2] - (args.patch_size \div 2) + c]]]

\* C8: for keypoints with margin, desc_func is handed the patch_size x
\* patch_size window around the keypoint, and the result holds one row per
\* keypoint, row r being the descriptor of keypoint r.
C8_PatchAndOrder ==
    (fn = "describe_keypoints" /\ pc # "call") =>
        /\ Len(loc.desc) = loc.i
        /\ (loc.i >= 1 /\ HasMargin(args.keypoints[loc.i]))
              => loc.patch = Window(args.keypoints[loc.i])
        /\ \A r \in 1..loc.i :
              HasMargin(args.keypoints[r]) =>
                 loc.desc[r] = desc_call(args.desc_func, Window(args.keypoints[r]))
        /\ pc = "done" => (ret = loc.desc /\ Len(ret) = Len(args.keypoints))
        /\ pc = "raised" => \E r \in 1..loc.i : ~HasMargin(args.keypoints[r])

\* two different keypoints with margin were described with an odd patch
\* size, giving two different rows
C8_Witness ==
    /\ fn = "describe_keypoints"
    /\ pc = "done"
    /\ args.patch_size = 3
    /\ Len(args.keypoints) = 2
    /\ \A r \in 1..2 : HasMargin(args.keypoints[r])
    /\ ret[1] # ret[2]

(***************************************************************************)
(* Properties of match_descriptors, checked under SpecMatch.               *)
(***************************************************************************)
\* the entries of a row at indices other than j (1-based)
Others(row, j) == {row[k] : k \in (1..Len(row)) \ {j}}

Smallest(row) == CHOOSE v \in {row[k] : k \in 1..Len(row)} :
                     \A k \in 1..Len(row) : v <= row[k]

\* the first index (0-based) of the stable ascending order of a row
StableFirst(row) ==
    (CHOOSE j \in 1..Len(row) :
        /\ row[j] = Smallest(row)
        /\ \A k \in 1..(j - 1) : row[k] # Smallest(row)) - 1

\* the second entry of the ascending order of a row
SecondSmallest(row) ==
    CHOOSE v \in Others(row, StableFirst(row) + 1) :
        \A w \in Others(row, StableFirst(row) + 1) : v <= w

\* row i of desc1 passes the test: second smallest - smallest > threshold
Accepted(i) ==
    GapExceeds(Smallest(loc.dists[i]), SecondSmallest(loc.dists[i]),
               args.threshold.num, args.threshold.den)

\* the pairs of ret are strictly ascending in their first entry
AscendingByI ==
    \A a, b \in 1..Len(ret) : a < b => ret[a][1] < ret[b][1]

Returned(at) == fn = "match_descriptors" /\ pc = "done" /\ Len(args.desc2) >= at

=============================================================================
